---------------------------- MODULE Spec2Model ----------------------------
(***************************************************************************)
(* Model of the summary webhook of zensquid-backend:                       *)
(*   SummaryService.handleSummary (src/service/summary-service.ts) and the *)
(*   zod schemas it imports from "schema".                                 *)
(*                                                                         *)
(* JSON values are tagged records:                                         *)
(*   [s |-> "text"]  string      [n |-> 3]      number                     *)
(*   [b |-> TRUE]    boolean     [null |-> TRUE] null                      *)
(*   [a |-> <<..>>]  array       [o |-> [k |-> v, ...]]  object            *)
(* and Undefined stands for the JavaScript value undefined (absent key).   *)
(*                                                                         *)
(* Two files of the repository export insertMeetingMetadataSchema, one     *)
(* with every field required and one with every top-level field            *)
(* .optional(); the import from "schema" does not say which one is meant,  *)
(* so schemaModule ranges over both.  What pptxgenjs does on               *)
(* addText(undefined) is library behaviour: addTextThrows ranges over both *)
(* outcomes.  Both are fixed for the whole run.                            *)
(*                                                                         *)
(* Each action is the code of handleSummary between two await points; the  *)
(* collaborators' answers are the inputs of the actions.                   *)
(***************************************************************************)
EXTENDS Integers, Sequences, FiniteSets, TLC

\* ------------------------------------------------------------------------
\* JSON values
\* ------------------------------------------------------------------------
JStr(x)  == [s |-> x]
JNum(x)  == [n |-> x]
JBool(x) == [b |-> x]
JNull    == [null |-> TRUE]
JArr(x)  == [a |-> x]
JObj(x)  == [o |-> x]
Undefined == [undefined |-> TRUE]
EmptyRec == [k \in {} |-> Undefined]

IsStr(v)  == DOMAIN v = {"s"}
IsNum(v)  == DOMAIN v = {"n"}
IsBool(v) == DOMAIN v = {"b"}
IsArr(v)  == DOMAIN v = {"a"}
IsObj(v)  == DOMAIN v = {"o"}

\* data[key] of a JavaScript object: undefined when the key is absent
Get(obj, k) == IF k \in DOMAIN obj THEN obj[k] ELSE Undefined

\* ------------------------------------------------------------------------
\* zod schema descriptors and safeParse
\* ------------------------------------------------------------------------
ZString      == [z |-> "string", min |-> 0]
ZStringMin(m) == [z |-> "string", min |-> m]
ZEmailAsString == [z |-> "string", min |-> 1]
ZEmail       == [z |-> "email"]
ZNumber      == [z |-> "number"]
ZBoolean     == [z |-> "boolean"]
ZEnum(vals)  == [z |-> "enum", vals |-> vals]
ZArray(el)   == [z |-> "array", el |-> el]
ZObject(sh)  == [z |-> "object", shape |-> sh]
ZOptional(i) == [z |-> "optional", inner |-> i]

Letters == {"a","b","c","d","e","f","g","h","i","j","k","l","m",
            "n","o","p","q","r","s","t","u","v","w","x","y","z"}
Digits  == {"0","1","2","3","4","5","6","7","8","9"}
AlNum   == Letters \cup Digits

Ch(str, i) == SubSeq(str, i, i)

\* z.string().email(): the pattern
\*   ^(?!\.)(?!.*\.\.)([A-Z0-9_'+\-\.]*)[A-Z0-9_+-]@([A-Z0-9][A-Z0-9\-]*\.)+[A-Z]{2,}$
IsEmail(str) ==
    LET len  == Len(str)
        ats  == {i \in 1..len : Ch(str, i) = "@"}
        p    == CHOOSE i \in ats : TRUE
        dots == {i \in (p+1)..len : Ch(str, i) = "."}
        last == CHOOSE i \in dots : \A j \in dots : j <= i
    IN  /\ Cardinality(ats) = 1
        /\ p > 1
        /\ \A i \in 1..(p-1) : Ch(str, i) \in AlNum \cup {"_", "'", "+", "-", "."}
        /\ Ch(str, 1) # "."
        /\ Ch(str, p-1) \in AlNum \cup {"_", "+", "-"}
        /\ \A i \in 1..(len-1) : ~(Ch(str, i) = "." /\ Ch(str, i+1) = ".")
        /\ dots # {}
        /\ p + 1 <= len
        /\ Ch(str, p+1) \in AlNum
        /\ \A i \in (p+1)..last : Ch(str, i) \in AlNum \cup {"-", "."}
        /\ \A i \in dots : i < last => Ch(str, i+1) \in AlNum
        /\ len - last >= 2
        /\ \A i \in (last+1)..len : Ch(str, i) \in Letters

Issue(path, code) == [path |-> path, code |-> code]

\* The issues a zod schema raises on a value (empty set: the value is accepted)
RECURSIVE ZodIssues(_, _, _)
ZodIssues(schema, v, path) ==
    CASE schema.z = "optional" ->
           IF v = Undefined THEN {} ELSE ZodIssues(schema.inner, v, path)
      [] schema.z = "string" ->
           IF ~IsStr(v) THEN {Issue(path, "invalid_type")}
           ELSE IF Len(v.s) < schema.min THEN {Issue(path, "too_small")}
           ELSE {}
      [] schema.z = "email" ->
           IF ~IsStr(v) THEN {Issue(path, "invalid_type")}
           ELSE IF ~IsEmail(v.s) THEN {Issue(path, "invalid_string")}
           ELSE {}
      [] schema.z = "number" ->
           IF ~IsNum(v) THEN {Issue(path, "invalid_type")} ELSE {}
      [] schema.z = "boolean" ->
           IF ~IsBool(v) THEN {Issue(path, "invalid_type")} ELSE {}
      [] schema.z = "enum" ->
           IF ~IsStr(v) THEN {Issue(path, "invalid_type")}
           ELSE IF v.s \notin schema.vals THEN {Issue(path, "invalid_enum_value")}
           ELSE {}
      [] schema.z = "array" ->
           IF ~IsArr(v) THEN {Issue(path, "invalid_type")}
           ELSE UNION {ZodIssues(schema.el, v.a[i], Append(path, ToString(i - 1)))
                         : i \in DOMAIN v.a}
      [] schema.z = "object" ->
           IF ~IsObj(v) THEN {Issue(path, "invalid_type")}
           ELSE UNION {ZodIssues(schema.shape[k], Get(v.o, k), Append(path, k))
                         : k \in DOMAIN schema.shape}

\* The data zod returns for an accepted value: z.object strips unknown keys
\* and leaves out the keys whose value is undefined
RECURSIVE ZodOutput(_, _)
ZodOutput(schema, v) ==
    CASE schema.z = "optional" ->
           IF v = Undefined THEN Undefined ELSE ZodOutput(schema.inner, v)
      [] schema.z = "array" ->
           JArr([i \in DOMAIN v.a |-> ZodOutput(schema.el, v.a[i])])
      [] schema.z = "object" ->
           JObj([k \in (DOMAIN schema.shape) \cap (DOMAIN v.o)
                   |-> ZodOutput(schema.shape[k], v.o[k])])
      [] OTHER -> v

ZodError(issues) == [name |-> "ZodError", issues |-> issues]

\* schema.safeParse(value)
safeParse(schema, v) ==
    LET issues == ZodIssues(schema, v, <<>>)
    IN  IF issues = {}
        THEN [success |-> TRUE, data |-> ZodOutput(schema, v)]
        ELSE [success |-> FALSE, error |-> ZodError(issues)]

\* ------------------------------------------------------------------------
\* The schemas of the "schema" module
\* ------------------------------------------------------------------------
TranscriptBlockSchema ==
    ZObject([personName |-> ZStringMin(1),
             timestamp  |-> ZStringMin(1),
             text       |-> ZStringMin(1)])

TranscriptSchema == ZArray(TranscriptBlockSchema)

requestSchema ==
    ZObject([id           |-> ZStringMin(1),
             email        |-> ZEmail,
             startTime    |-> ZStringMin(1),
             endTime      |-> ZStringMin(1),
             participants |-> ZArray(ZStringMin(1)),
             transcript   |-> TranscriptSchema])

\* The field schemas shared by the two variants of insertMeetingMetadataSchema
MetadataFields ==
    [title            |-> ZString,
     shortDescription |-> ZString,
     description      |-> ZString,
     takeaways        |-> ZArray(ZString),
     actionItems      |-> ZArray(ZObject(
                            [id          |-> ZStringMin(1),
                             description |-> ZString,
                             assignee    |-> ZString,
                             deadline    |-> ZStringMin(1),
                             status      |-> ZEnum({"pending", "in_progress", "completed"})])),
     moodGraph        |-> ZObject(
                            [aspects   |-> ZArray(ZObject([mood |-> ZString, score |-> ZNumber])),
                             timestamp |-> ZStringMin(1)]),
     timeline         |-> ZArray(ZObject(
                            [startTime |-> ZStringMin(1),
                             endTime   |-> ZStringMin(1),
                             topic     |-> ZString,
                             speaker   |-> ZString])),
     participantEngagement |-> ZArray(ZObject(
                            [participantId     |-> ZString,
                             speakingTime      |-> ZNumber,
                             interventionCount |-> ZNumber,
                             engagementScore   |-> ZNumber])),
     sentimentOverTime |-> ZObject(
                            [overallSentiment |-> ZNumber,
                             sentimentPoints  |-> ZArray(ZObject(
                                 [timestamp |-> ZStringMin(1), sentiment |-> ZNumber]))]),
     questionTracker  |-> ZArray(ZObject(
                            [id        |-> ZString,
                             text      |-> ZString,
                             askedBy   |-> ZString,
                             timestamp |-> ZStringMin(1),
                             answered  |-> ZBoolean])),
     resourceLinks    |-> ZArray(ZObject(
                            [id          |-> ZString,
                             url         |-> ZString,
                             title       |-> ZString,
                             type        |-> ZEnum({"document", "website", "video", "other"}),
                             mentionedAt |-> ZStringMin(1)])),
     meetingEfficiencyScore |-> ZNumber]

\* insertMeetingMetadataSchema, every field required
insertMeetingMetadataSchemaStrict == ZObject(MetadataFields)

\* insertMeetingMetadataSchema, every top-level field .optional()
insertMeetingMetadataSchemaPartial ==
    ZObject([k \in DOMAIN MetadataFields |-> ZOptional(MetadataFields[k])])

\* ------------------------------------------------------------------------
\* JSON.stringify and JSON.parse
\* ------------------------------------------------------------------------
\* Property order of the objects that occur (JavaScript keeps insertion order)
KeyOrder ==
    <<"id", "email", "startTime", "endTime", "participants", "transcript",
      "personName", "timestamp", "text",
      "title", "shortDescription", "description", "takeaways", "actionItems",
      "assignee", "deadline", "status", "moodGraph", "aspects", "mood", "score",
      "timeline", "topic", "speaker", "participantEngagement", "participantId",
      "speakingTime", "interventionCount", "engagementScore",
      "sentimentOverTime", "overallSentiment", "sentimentPoints", "sentiment",
      "questionTracker", "askedBy", "answered", "resourceLinks", "url", "type",
      "mentionedAt", "meetingEfficiencyScore">>

RECURSIVE Join(_, _)
Join(strs, sep) ==
    IF strs = <<>> THEN ""
    ELSE IF Len(strs) = 1 THEN strs[1]
    ELSE strs[1] \o sep \o Join(Tail(strs), sep)

RECURSIVE JSONStringify(_)
JSONStringify(v) ==
    CASE IsStr(v)  -> "\"" \o v.s \o "\""
      [] IsNum(v)  -> ToString(v.n)
      [] IsBool(v) -> IF v.b THEN "true" ELSE "false"
      [] IsArr(v)  -> "[" \o Join([i \in DOMAIN v.a |-> JSONStringify(v.a[i])], ",") \o "]"
      [] IsObj(v)  ->
           LET keys == SelectSeq(KeyOrder, LAMBDA k : k \in DOMAIN v.o)
           IN  "{" \o Join([i \in DOMAIN keys |->
                              "\"" \o keys[i] \o "\":" \o JSONStringify(v.o[keys[i]])], ",")
                   \o "}"
      [] OTHER     -> "null"

\* ------------------------------------------------------------------------
\* Bounds and the inputs drawn from them
\* ------------------------------------------------------------------------
MaxTranscript == 1   \* transcript blocks in a request
MaxItems      == 1   \* takeaways / action items in an AI answer

Inv == {1, 2}        \* the concurrent invocations of the webhook

Block(k) == JObj([personName |-> JStr("Alice"),
                  timestamp  |-> JStr("t" \o ToString(k)),
                  text       |-> JStr("hello")])

GoodBody(id, len) ==
    JObj([id           |-> JStr(id),
          email        |-> JStr("a@b.com"),
          startTime    |-> JStr("t0"),
          endTime      |-> JStr("t1"),
          participants |-> JArr(<<JStr("Alice")>>),
          transcript   |-> JArr([k \in 1..len |-> Block(k)])])

\* obj with the key k removed / set
Without(v, k) == JObj([f \in DOMAIN v.o \ {k} |-> v.o[f]])
With(v, k, w) == JObj([f \in DOMAIN v.o \cup {k} |-> IF f = k THEN w ELSE v.o[f]])

ValidBodies ==
    {GoodBody("m1", len) : len \in 0..MaxTranscript} \cup {GoodBody("m2", MaxTranscript)}

InvalidBodies ==
    LET good == GoodBody("m1", MaxTranscript)
    IN  { Without(good, "email"),
          With(good, "email", JStr("a.b.com")),
          With(good, "id", JStr("")),
          With(good, "endTime", JStr("")),
          With(good, "participants", JArr(<<JStr("")>>)),
          With(good, "transcript", JArr(<<With(Block(1), "text", JStr(""))>>)),
          Undefined }

Bodies == ValidBodies \cup InvalidBodies

ActionItem(k) ==
    JObj([id          |-> JStr("a" \o ToString(k)),
          description |-> JStr("do " \o ToString(k)),
          assignee    |-> JStr("Alice"),
          deadline    |-> JStr("t9"),
          status      |-> JStr("pending")])

Metadata(len) ==
    JObj([title            |-> JStr("Sync"),
          shortDescription |-> JStr("short"),
          description      |-> JStr("long"),
          takeaways        |-> JArr([k \in 1..len |-> JStr("point " \o ToString(k))]),
          actionItems      |-> JArr([k \in 1..len |-> ActionItem(k)]),
          moodGraph        |-> JObj([aspects   |-> JArr(<<JObj([mood |-> JStr("stress"),
                                                                 score |-> JNum(40)])>>),
                                     timestamp |-> JStr("t0")]),
          timeline         |-> JArr(<<JObj([startTime |-> JStr("t0"), endTime |-> JStr("t1"),
                                            topic |-> JStr("intro"), speaker |-> JStr("Alice")])>>),
          participantEngagement |-> JArr(<<JObj([participantId |-> JStr("Alice"),
                                                 speakingTime |-> JNum(5),
                                                 interventionCount |-> JNum(1),
                                                 engagementScore |-> JNum(90)])>>),
          sentimentOverTime |-> JObj([overallSentiment |-> JNum(1),
                                      sentimentPoints  |-> JArr(<<>>)]),
          questionTracker  |-> JArr(<<>>),
          resourceLinks    |-> JArr(<<>>),
          meetingEfficiencyScore |-> JNum(80)])

\* The JSON documents the AI collaborator may answer with
AIValues ==
    {Metadata(len) : len \in 0..MaxItems}
    \cup { Without(Metadata(MaxItems), "meetingEfficiencyScore"),
           Without(Metadata(MaxItems), "takeaways"),
           Without(Metadata(MaxItems), "title"),
           With(Metadata(MaxItems), "id", JStr("m9")),
           With(Metadata(MaxItems), "meetingEfficiencyScore", JStr("80")),
           JObj(EmptyRec) }

NonJSONTexts == {"", "Sorry, I cannot summarise this."}

AITexts == {JSONStringify(v) : v \in AIValues} \cup NonJSONTexts

\* JSON.parse on the texts that occur: the value, or a SyntaxError
ParseTable ==
    [t \in AITexts |->
        IF \E v \in AIValues : JSONStringify(v) = t
        THEN [ok |-> TRUE, value |-> CHOOSE v \in AIValues : JSONStringify(v) = t]
        ELSE [ok |-> FALSE, error |-> [name |-> "SyntaxError"]]]

JSONParse(text) == ParseTable[text]

UploadUrls == {"https://bucket/u1", "https://bucket/u2"}

\* ------------------------------------------------------------------------
\* State
\* ------------------------------------------------------------------------
VARIABLES
    schemaModule,   \* which "schema" module the build resolves: "strict" | "partial"
    addTextThrows,  \* whether pptxgenjs raises on addText(undefined)
    pc,             \* pc[i]: where invocation i is suspended
    body,           \* request.body
    req,            \* parsedRequest.data
    parsed,         \* parsedResult.data
    pptxBlob,
    uploadUrl,
    answers,        \* what the collaborators answered to invocation i
    log,            \* the calls invocation i has issued, in order
    ret             \* the outcome of handleSummary: pending, returned or thrown

vars == <<schemaModule, addTextThrows, pc, body, req, parsed, pptxBlob,
          uploadUrl, answers, log, ret>>

None == [none |-> TRUE]
BACKEND_API_URL == "http://backend"

insertMeetingMetadataSchema ==
    IF schemaModule = "strict" THEN insertMeetingMetadataSchemaStrict
    ELSE insertMeetingMetadataSchemaPartial

Returned(success, error) ==
    [kind |-> "returned", value |-> [success |-> success, error |-> error]]
Thrown(error) == [kind |-> "thrown", error |-> error]

Call(svc, method, url, payload) ==
    [svc |-> svc, method |-> method, url |-> url, payload |-> payload]

\* generatePrompt(transcript): the fixed instructions with the transcript
\* embedded as JSON (the indentation of JSON.stringify(_, null, 2) is left out)
generatePrompt(transcript) ==
    [instructions |-> "zenai-summary-prompt",
     transcript   |-> JSONStringify(transcript)]

\* { id, email, ...data }
StoreBody(r, data) ==
    JObj([k \in {"id", "email"} \cup DOMAIN data.o |->
            IF k \in DOMAIN data.o THEN data.o[k] ELSE r[k]])

ArtifactName(id) == "presentation-" \o id \o ".pptx"

\* generatePresentation(data, id) up to pptx.write(): the slides, or the error
\* raised; "* " stands for the bullet character that starts each line
generatePresentation(data, id) ==
    LET title       == Get(data.o, "title")
        description == Get(data.o, "description")
        takeaways   == Get(data.o, "takeaways")
        actionItems == Get(data.o, "actionItems")
    IN  IF (title = Undefined \/ description = Undefined) /\ addTextThrows
        THEN [ok |-> FALSE, error |-> [name |-> "Error", message |-> "addText"]]
        ELSE IF takeaways = Undefined \/ actionItems = Undefined
        THEN [ok |-> FALSE, error |-> [name |-> "TypeError", message |-> "forEach of undefined"]]
        ELSE [ok |-> TRUE,
              slides |-> << <<title>>,
                            <<JStr("Summary"), description>>,
                            <<JStr("Key Points")>> \o
                               [k \in DOMAIN takeaways.a |-> JStr("* " \o takeaways.a[k].s)],
                            <<JStr("Action Items")>> \o
                               [k \in DOMAIN actionItems.a |->
                                  JStr("* " \o actionItems.a[k].o.description.s)] >>]

\* A request object kept where every invocation can overwrite it
RequestOfShared(i) ==
    LET started == {j \in Inv : req[j] # None}
    IN  IF started = {} THEN req[i]
        ELSE req[CHOOSE j \in started : \A k \in started : j >= k]

\* line 19: const { id, email, transcript } of the invocation
RequestOf(i) == req[i]

Init ==
    /\ schemaModule \in {"strict", "partial"}
    /\ addTextThrows \in BOOLEAN
    /\ pc = [i \in Inv |-> "idle"]
    /\ body = [i \in Inv |-> None]
    /\ req = [i \in Inv |-> None]
    /\ parsed = [i \in Inv |-> None]
    /\ pptxBlob = [i \in Inv |-> None]
    /\ uploadUrl = [i \in Inv |-> None]
    /\ answers = [i \in Inv |-> <<>>]
    /\ log = [i \in Inv |-> <<>>]
    /\ ret = [i \in Inv |-> [kind |-> "pending"]]

Finish(i, outcome) ==
    /\ pc' = [pc EXCEPT ![i] = "done"]
    /\ ret' = [ret EXCEPT ![i] = outcome]

Suspend(i, at, call) ==
    /\ pc' = [pc EXCEPT ![i] = at]
    /\ log' = [log EXCEPT ![i] = Append(@, call)]
    /\ UNCHANGED ret

\* lines 10-27: validate the request, build the prompt, ask the chatbot
HandleSummary(i, b) ==
    /\ pc[i] = "idle"
    /\ body' = [body EXCEPT ![i] = b]
    /\ LET parsedRequest == safeParse(requestSchema, b)
       IN  IF ~parsedRequest.success
           THEN /\ Finish(i, Returned(FALSE, JStr("Invalid request")))
                /\ UNCHANGED <<req, log>>
           ELSE /\ req' = [req EXCEPT ![i] = parsedRequest.data.o]
                /\ Suspend(i, "awaitAI",
                           Call("ai", "ask", "zenai-summary-bot",
                                generatePrompt(parsedRequest.data.o.transcript)))
    /\ UNCHANGED <<schemaModule, addTextThrows, parsed, pptxBlob, uploadUrl, answers>>

\* lines 29-47: parse and validate the AI answer, PUT the metadata
AIResponds(i, text) ==
    /\ pc[i] = "awaitAI"
    /\ answers' = [answers EXCEPT ![i] = Append(@, [text |-> text])]
    /\ LET json == JSONParse(text)
       IN  IF ~json.ok
           THEN /\ Finish(i, Thrown(json.error))
                /\ UNCHANGED <<parsed, log>>
           ELSE LET parsedResult == safeParse(insertMeetingMetadataSchema, json.value)
                IN  IF ~parsedResult.success
                    THEN /\ Finish(i, Returned(FALSE, parsedResult.error))
                         /\ UNCHANGED <<parsed, log>>
                    ELSE /\ parsed' = [parsed EXCEPT ![i] = parsedResult.data]
                         /\ Suspend(i, "awaitStore",
                                    Call("store", "PUT", BACKEND_API_URL \o "/meeting",
                                         [text |-> JSONStringify(
                                                     StoreBody(RequestOf(i), parsedResult.data))]))
    /\ UNCHANGED <<schemaModule, addTextThrows, body, req, pptxBlob, uploadUrl>>

\* The store's status is not looked at
StoreRespondsUnchecked(i, ok) ==
    /\ pc[i] = "awaitStore"
    /\ answers' = [answers EXCEPT ![i] = Append(@, [ok |-> ok])]
    /\ Suspend(i, "awaitRender",
               Call("pptx", "generatePresentation", RequestOf(i).id.s, None))
    /\ generatePresentation(parsed[i], RequestOf(i).id.s).ok
    /\ UNCHANGED <<schemaModule, addTextThrows, body, req, parsed, pptxBlob, uploadUrl>>

\* A failed PUT is issued again
StoreRespondsRetry(i, ok) ==
    /\ pc[i] = "awaitStore"
    /\ answers' = [answers EXCEPT ![i] = Append(@, [ok |-> ok])]
    /\ IF ~ok
       THEN Suspend(i, "awaitStore", log[i][Len(log[i])])
       ELSE LET deck == generatePresentation(parsed[i], RequestOf(i).id.s)
                call == Call("pptx", "generatePresentation", RequestOf(i).id.s, None)
            IN  IF ~deck.ok
                THEN /\ Finish(i, Thrown(deck.error))
                     /\ log' = [log EXCEPT ![i] = Append(@, call)]
                ELSE Suspend(i, "awaitRender", call)
    /\ UNCHANGED <<schemaModule, addTextThrows, body, req, parsed, pptxBlob, uploadUrl>>

\* lines 49-56: check the store's status, start rendering
StoreResponds(i, ok) ==
    /\ pc[i] = "awaitStore"
    /\ answers' = [answers EXCEPT ![i] = Append(@, [ok |-> ok])]
    /\ IF ~ok
       THEN /\ Finish(i, Returned(FALSE, JStr("Failed to update meeting metadata")))
            /\ UNCHANGED log
       ELSE LET deck == generatePresentation(parsed[i], RequestOf(i).id.s)
                call == Call("pptx", "generatePresentation", RequestOf(i).id.s, None)
            IN  IF ~deck.ok
                THEN /\ Finish(i, Thrown(deck.error))
                     /\ log' = [log EXCEPT ![i] = Append(@, call)]
                ELSE Suspend(i, "awaitRender", call)
    /\ UNCHANGED <<schemaModule, addTextThrows, body, req, parsed, pptxBlob, uploadUrl>>

\* lines 56-57, 106: pptx.write() resolves, the presigned URL is requested
RenderDone(i) ==
    /\ pc[i] = "awaitRender"
    /\ pptxBlob' = [pptxBlob EXCEPT ![i] =
                      [blob |-> generatePresentation(parsed[i], RequestOf(i).id.s).slides]]
    /\ Suspend(i, "awaitSignedUrl",
               Call("signed-url", "GET",
                    BACKEND_API_URL \o "/signed-url/" \o ArtifactName(RequestOf(i).id.s), None))
    /\ UNCHANGED <<schemaModule, addTextThrows, body, req, parsed, uploadUrl, answers>>

\* lines 108-112: check the status of the presigned-URL response
SignedUrlResponds(i, ok, url) ==
    /\ pc[i] = "awaitSignedUrl"
    /\ answers' = [answers EXCEPT ![i] = Append(@, [ok |-> ok, json |-> JObj([url |-> JStr(url)])])]
    /\ IF ~ok
       THEN Finish(i, Thrown([name |-> "Error",
                              message |-> "Failed to get pre-signed upload URL"]))
       ELSE /\ pc' = [pc EXCEPT ![i] = "awaitSignedJson"]
            /\ UNCHANGED ret
    /\ UNCHANGED <<schemaModule, addTextThrows, body, req, parsed, pptxBlob, uploadUrl, log>>

\* lines 112-113, 57-65: response.json() resolves, the upload is issued
SignedJsonDone(i) ==
    /\ pc[i] = "awaitSignedJson"
    /\ LET data == answers[i][Len(answers[i])].json
       IN  /\ uploadUrl' = [uploadUrl EXCEPT ![i] = data.o.url.s]
           /\ Suspend(i, "awaitUpload",
                      Call("upload", "PUT", data.o.url.s, pptxBlob[i]))
    /\ UNCHANGED <<schemaModule, addTextThrows, body, req, parsed, pptxBlob, answers>>

\* The upload's status is not looked at
UploadRespondsUnchecked(i, ok) ==
    /\ pc[i] = "awaitUpload"
    /\ answers' = [answers EXCEPT ![i] = Append(@, [ok |-> ok])]
    /\ Finish(i, Returned(TRUE, JNull))
    /\ UNCHANGED <<schemaModule, addTextThrows, body, req, parsed, pptxBlob, uploadUrl, log>>

\* lines 67-77: check the upload's status
UploadResponds(i, ok) ==
    /\ pc[i] = "awaitUpload"
    /\ answers' = [answers EXCEPT ![i] = Append(@, [ok |-> ok])]
    /\ IF ~ok
       THEN Finish(i, Returned(FALSE, JStr("Failed to upload presentation")))
       ELSE Finish(i, Returned(TRUE, JNull))
    /\ UNCHANGED <<schemaModule, addTextThrows, body, req, parsed, pptxBlob, uploadUrl, log>>

Next ==
    \E i \in Inv :
        \/ \E b \in Bodies : HandleSummary(i, b)
        \/ \E text \in AITexts : AIResponds(i, text)
        \/ \E ok \in BOOLEAN : StoreResponds(i, ok)
        \/ RenderDone(i)
        \/ \E ok \in BOOLEAN, url \in UploadUrls : SignedUrlResponds(i, ok, url)
        \/ SignedJsonDone(i)
        \/ \E ok \in BOOLEAN : UploadResponds(i, ok)

Spec == Init /\ [][Next]_vars
\* ------------------------------------------------------------------------
\* Observations of a run
\* ------------------------------------------------------------------------
Count(i, svc) == Len(SelectSeq(log[i], LAMBDA c : c.svc = svc))
Svcs(i) == [k \in DOMAIN log[i] |-> log[i][k].svc]

Done(i) == pc[i] = "done"
ReturnedValue(i, success, error) == ret[i] = Returned(success, error)
ReturnedFailure(i) == ret[i].kind = "returned" /\ ret[i].value.success = FALSE

IsZodError(e) == DOMAIN e = {"name", "issues"}

\* the k-th collaborator answered invocation i, with a non-success status
Answered(i, k) == Len(answers[i]) >= k
AnsweredNotOk(i, k) == Answered(i, k) /\ ~answers[i][k].ok
AnsweredOk(i, k) == Answered(i, k) /\ answers[i][k].ok

\* The AI texts that are JSON, those that lack a field of the strict shape,
\* and those each variant of insertMeetingMetadataSchema accepts
JSONTexts == {t \in AITexts : ParseTable[t].ok}
LackingTexts ==
    {t \in JSONTexts :
        \E k \in DOMAIN MetadataFields : k \notin DOMAIN ParseTable[t].value.o}
AcceptedTexts ==
    [m \in {"strict", "partial"} |->
        {t \in JSONTexts :
            ZodIssues(IF m = "strict" THEN insertMeetingMetadataSchemaStrict
                      ELSE insertMeetingMetadataSchemaPartial,
                      ParseTable[t].value, <<>>) = {}}]

AINotJSON(i) == Answered(i, 1) /\ answers[i][1].text \notin JSONTexts
AILacksField(i) == Answered(i, 1) /\ answers[i][1].text \in LackingTexts
AIAccepted(i) == Answered(i, 1) /\ answers[i][1].text \in AcceptedTexts[schemaModule]

FixedErrors == {"Invalid request", "Failed to update meeting metadata",
                "Failed to upload presentation"}

\* ------------------------------------------------------------------------
\* Claims
\* ------------------------------------------------------------------------

\* C1: when the request is valid and the AI text is not valid JSON, the run
\* ends by returning success = false with a non-null error, and the metadata
\* store is never called.
C1_NonJsonReturnsFailure ==
    \A i \in Inv :
        (Done(i) /\ AINotJSON(i)) =>
            /\ ReturnedFailure(i)
            /\ ret[i].value.error # JNull
            /\ Count(i, "store") = 0

\* C2: when the presigned-URL service answers with a non-success status, the
\* run returns {success: false, error: "Failed to upload presentation"} and
\* no upload PUT is issued.
C2_NoDestinationReturnsUploadFailure ==
    \A i \in Inv :
        (Done(i) /\ AnsweredNotOk(i, 3)) =>
            /\ ReturnedValue(i, FALSE, JStr("Failed to upload presentation"))
            /\ Count(i, "upload") = 0

\* C3: when the AI answer is JSON but lacks a field of the strict
\* MeetingMetadata shape, the run returns success = false with the validation
\* error and the metadata store is never called.
C3_MissingFieldRejected ==
    \A i \in Inv :
        AILacksField(i) =>
            /\ Done(i)
            /\ ReturnedFailure(i)
            /\ IsZodError(ret[i].value.error)
            /\ Count(i, "store") = 0

\* C4: a body that fails the request schema yields exactly
\* {success: false, error: "Invalid request"} and no collaborator is called.
C4_InvalidRequestNoWork ==
    \A i \in Inv :
        body[i] \in InvalidBodies =>
            /\ Done(i)
            /\ ReturnedValue(i, FALSE, JStr("Invalid request"))
            /\ log[i] = <<>>

C4_Witness ==
    \E i \in Inv :
        /\ Done(i)
        /\ IsObj(body[i])
        /\ Get(body[i].o, "email") = JStr("a.b.com")
        /\ ReturnedValue(i, FALSE, JStr("Invalid request"))

\* C5: when the upload answers with a non-success status after every earlier
\* stage succeeded, the run returns {success: false, error: "Failed to upload
\* presentation"}; the store was called exactly once, before the upload, and
\* nothing is called after the upload.
C5_UploadFailureKeepsPersistence ==
    \A i \in Inv :
        AnsweredNotOk(i, 4) =>
            /\ Done(i)
            /\ ReturnedValue(i, FALSE, JStr("Failed to upload presentation"))
            /\ Count(i, "store") = 1
            /\ \E k, m \in DOMAIN log[i] :
                  /\ k < m
                  /\ log[i][k].svc = "store"
                  /\ log[i][m].svc = "upload"
                  /\ m = Len(log[i])

C5_Witness ==
    \E i \in Inv :
        /\ Done(i)
        /\ AnsweredOk(i, 2)
        /\ AnsweredNotOk(i, 4)
        /\ Count(i, "store") = 1

\* C6: when the metadata store answers with a non-success status, the run
\* returns {success: false, error: "Failed to update meeting metadata"}; the
\* presentation is not rendered, no presigned URL is requested and no upload
\* is issued.
C6_StoreFailureStopsPipeline ==
    \A i \in Inv :
        AnsweredNotOk(i, 2) =>
            /\ Done(i)
            /\ ReturnedValue(i, FALSE, JStr("Failed to update meeting metadata"))
            /\ Count(i, "pptx") = 0
            /\ Count(i, "signed-url") = 0
            /\ Count(i, "upload") = 0

C6_Witness ==
    \E i \in Inv :
        /\ Done(i)
        /\ AnsweredNotOk(i, 2)
        /\ Svcs(i) = <<"ai", "store">>

\* every stage of invocation i passed
AllStagesPassed(i) ==
    /\ body[i] \in ValidBodies
    /\ AIAccepted(i)
    /\ AnsweredOk(i, 2)
    /\ AnsweredOk(i, 3)
    /\ AnsweredOk(i, 4)

\* C7: a finished run returned {success: true, error: null} if and only if
\* the request and the AI output passed validation and the store, the
\* presigned-URL service and the upload answered success; such a run called
\* the AI, the store, the renderer, the presigned-URL service and the upload
\* target in that order.
C7_SuccessIffAllStages ==
    \A i \in Inv :
        Done(i) =>
            /\ ReturnedValue(i, TRUE, JNull) <=> AllStagesPassed(i)
            /\ ReturnedValue(i, TRUE, JNull) =>
                  Svcs(i) = <<"ai", "store", "pptx", "signed-url", "upload">>

C7_Witness ==
    \E i \in Inv :
        /\ Done(i)
        /\ ReturnedValue(i, TRUE, JNull)
        /\ AllStagesPassed(i)

\* C8: every finished run has returned a response {success, error}: error is
\* null exactly when success is true, and a failure's error is one of the
\* fixed strings or the structured validation error.
C8_AlwaysReturnsResponse ==
    \A i \in Inv :
        Done(i) =>
            /\ ret[i].kind = "returned"
            /\ ret[i].value.success <=> ret[i].value.error = JNull
            /\ ~ret[i].value.success =>
                  \/ IsZodError(ret[i].value.error)
                  \/ /\ IsStr(ret[i].value.error)
                     /\ ret[i].value.error.s \in FixedErrors

\* the number of calls invocation i has issued once its k-th answer is in
CallsBeforeAnswer(k) == IF k <= 2 THEN k ELSE k + 1

\* the k-th answer to invocation i reports a failure of its stage
FailingAnswer(i, k) ==
    IF k = 1
    THEN ~AIAccepted(i)
    ELSE ~answers[i][k].ok

\* C9: each collaborator is called at most once per invocation, and the
\* first failing stage ends the invocation: it is the last answer taken and
\* no call follows it.
C9_NoRetry ==
    \A i \in Inv :
        /\ \A svc \in {"ai", "store", "pptx", "signed-url", "upload"} : Count(i, svc) <= 1
        /\ \A k \in DOMAIN answers[i] :
              FailingAnswer(i, k) =>
                  /\ Done(i)
                  /\ k = Len(answers[i])
                  /\ Len(log[i]) = CallsBeforeAnswer(k)

C9_Witness ==
    \E i \in Inv :
        /\ Done(i)
        /\ Answered(i, 3)
        /\ FailingAnswer(i, 3)
        /\ Svcs(i) = <<"ai", "store", "pptx", "signed-url">>

\* ------------------------------------------------------------------------
\* handleSummary run alone: the outcome and the calls of one invocation as a
\* function of its request body and of the answers it has been given so far
\* (calls up to the next answer it needs)
\* ------------------------------------------------------------------------
Pending == [kind |-> "pending"]
Outcome(r, calls) == [ret |-> r, log |-> calls]

SoloUpload(r, data, ans, calls) ==
    LET url  == ans[3].json.o.url.s
        blob == [blob |-> generatePresentation(data, r.id.s).slides]
        all  == Append(calls, Call("upload", "PUT", url, blob))
    IN  IF Len(ans) < 4 THEN Outcome(Pending, all)
        ELSE IF ~ans[4].ok
        THEN Outcome(Returned(FALSE, JStr("Failed to upload presentation")), all)
        ELSE Outcome(Returned(TRUE, JNull), all)

SoloRender(r, data, ans, calls) ==
    LET deck   == generatePresentation(data, r.id.s)
        render == Append(calls, Call("pptx", "generatePresentation", r.id.s, None))
        signed == Append(render,
                         Call("signed-url", "GET",
                              BACKEND_API_URL \o "/signed-url/presentation-"
                                  \o r.id.s \o ".pptx", None))
    IN  IF ~deck.ok THEN Outcome(Thrown(deck.error), render)
        ELSE IF Len(ans) < 3 THEN Outcome(Pending, signed)
        ELSE IF ~ans[3].ok
        THEN Outcome(Thrown([name |-> "Error",
                             message |-> "Failed to get pre-signed upload URL"]), signed)
        ELSE SoloUpload(r, data, ans, signed)

\* safeParse and JSON.stringify on the inputs that occur, computed once
RequestResults == [b \in Bodies |-> safeParse(requestSchema, b)]
MetadataResults ==
    [m \in {"strict", "partial"} |->
        [t \in JSONTexts |->
            safeParse(IF m = "strict" THEN insertMeetingMetadataSchemaStrict
                      ELSE insertMeetingMetadataSchemaPartial, ParseTable[t].value)]]
Prompts ==
    [b \in {c \in Bodies : RequestResults[c].success} |->
        generatePrompt(RequestResults[b].data.o.transcript)]
StoreTexts ==
    [m \in {"strict", "partial"} |->
        [b \in {c \in Bodies : RequestResults[c].success} |->
            [t \in {u \in JSONTexts : MetadataResults[m][u].success} |->
                LET r    == RequestResults[b].data.o
                    data == MetadataResults[m][t].data.o
                IN  JSONStringify(JObj([k \in {"id", "email"} \cup DOMAIN data |->
                                          IF k \in DOMAIN data THEN data[k] ELSE r[k]]))]]]

SoloStore(b, ans, calls) ==
    LET text   == ans[1].text
        result == MetadataResults[schemaModule][text]
        put    == Append(calls,
                         Call("store", "PUT", BACKEND_API_URL \o "/meeting",
                              [text |-> StoreTexts[schemaModule][b][text]]))
    IN  IF text \notin JSONTexts THEN Outcome(Thrown([name |-> "SyntaxError"]), calls)
        ELSE IF ~result.success THEN Outcome(Returned(FALSE, result.error), calls)
        ELSE IF Len(ans) < 2 THEN Outcome(Pending, put)
        ELSE IF ~ans[2].ok
        THEN Outcome(Returned(FALSE, JStr("Failed to update meeting metadata")), put)
        ELSE SoloRender(RequestResults[b].data.o, result.data, ans, put)

SoloRun(b, ans) ==
    LET request == RequestResults[b]
        ask     == <<Call("ai", "ask", "zenai-summary-bot", Prompts[b])>>
    IN  IF ~request.success
        THEN Outcome(Returned(FALSE, JStr("Invalid request")), <<>>)
        ELSE IF Len(ans) < 1 THEN Outcome(Pending, ask)
        ELSE SoloStore(b, ans, ask)

IsPrefix(p, q) == Len(p) <= Len(q) /\ SubSeq(q, 1, Len(p)) = p

\* C10: whatever the other invocation does, an invocation's result and the
\* arguments of its calls are those of the same request with the same
\* answers run alone: its calls are always a prefix of the solo run's calls,
\* and once it has finished its result and its calls equal the solo run's.
C10_ConcurrentRunsIndependent ==
    \A i \in Inv :
        pc[i] # "idle" =>
            LET solo == SoloRun(body[i], answers[i])
            IN  /\ IsPrefix(log[i], solo.log)
                /\ Done(i) => (ret[i] = solo.ret /\ log[i] = solo.log)
                /\ ~Done(i) => (ret[i] = Pending /\ solo.ret = Pending)

\* both invocations in flight on different requests, then one finished
C10_Witness ==
    /\ Done(1)
    /\ ReturnedValue(1, TRUE, JNull)
    /\ pc[2] = "awaitUpload"
    /\ req[1].id # req[2].id
    /\ Len(log[1]) = 5
    /\ log[1][4].url = BACKEND_API_URL \o "/signed-url/presentation-" \o req[1].id.s \o ".pptx"
    /\ log[2][4].url = BACKEND_API_URL \o "/signed-url/presentation-" \o req[2].id.s \o ".pptx"

\* C11: every AI output that passed output validation and was persisted can
\* be rendered: generatePresentation raises nothing and yields the four
\* slides (title, Summary, Key Points, Action Items), so no run ends with an
\* exception right after the store answered success.
C11_AcceptedMetadataRenders ==
    \A i \in Inv :
        (AIAccepted(i) /\ AnsweredOk(i, 2)) =>
            LET deck == generatePresentation(parsed[i], req[i].id.s)
            IN  /\ deck.ok
                /\ Len(deck.slides) = 4
                /\ deck.slides[2][1] = JStr("Summary")
                /\ deck.slides[3][1] = JStr("Key Points")
                /\ deck.slides[4][1] = JStr("Action Items")
                /\ ~(Done(i) /\ Len(answers[i]) = 2 /\ ret[i].kind = "thrown")
=============================================================================
